---- MODULE Spec2Model ----
(***************************************************************************)
(* A model of the MCP chat applications of azure-mcp-vmdiag:               *)
(*   - ollama_multi  (cli.py, mcp_manager.py, history.py)   variant "multi" *)
(*   - ollama_single (mcp_ollama.py)                        variant "single"*)
(* Text is modelled as a sequence of atomic pieces (a free monoid): the    *)
(* empty string is << >>, concatenation is \o, and a formatted string is   *)
(* the sequence of its literal pieces and its interpolated values.         *)
(***************************************************************************)
EXTENDS Integers, Sequences, FiniteSets, TLC

VARIABLES
    variant,      \* which program runs: "multi" (cli.py) or "single" (mcp_ollama.py)
    pc,           \* position of the program
    fault,        \* the exception that is propagating or ended the run ("none" if none)
    messages,     \* ChatApp.messages / main's messages
    store,        \* the history file: NONE (absent) or its text
    stack,        \* AsyncExitStack: the contexts entered, in acquisition order
    released,     \* the contexts whose exit callback has run, in release order
    closeErr,     \* an exit callback raised during aclose()
    openIdx,      \* how many steps of __aenter__ have completed
    sessions,     \* MCPManager.sessions / MCP.sessions: identities, in insertion order
    tool_calls,   \* the tool-call requests of the current model response
    idx,          \* how many requests of tool_calls have been handled
    content,      \* msg.get("content") of the last model response
    user,         \* the input line read last, stripped (NONE before the first)
    outcome,      \* what the last session.call_tool round trip returned or raised
    chunks,       \* assistant_text_chunks
    final_text,   \* what _answer_with_tools returned last
    trips,        \* the round trips to tool servers made for the last handled request
    nCalls,       \* number of session.call_tool round trips made so far
    nChat,        \* number of model calls made in the current turn
    nRounds,      \* number of those whose response carried tool-call requests
    nReq,         \* number of tool-call requests received so far
    nTurns,       \* number of user turns started so far
    max_turns,    \* trim_history: the max_turns argument
    result,       \* trim_history: the value returned for (messages, max_turns)
    result2,      \* trim_history: the value returned for (result, max_turns)
    saved,        \* save/load on their own: the saves attempted, oldest first
    loaded,       \* save/load on their own: the value load_history returned
    outs,         \* main.py: the outputs ask_ollama has returned, oldest first
    obj,          \* main.py: the object json.loads returned (NoObj before)
    args,         \* main.py 166: the arguments mapping of the tool call
    args_after,   \* what that mapping holds once _ensure_monitor_parameters returned
    sent          \* main.py 172: the name and arguments given to session.call_tool

vars == <<variant, pc, fault, messages, store, stack, released, closeErr, openIdx,
          sessions, tool_calls, idx, content, chunks, final_text, trips, nCalls,
          nChat, nRounds, nReq, nTurns, user, outcome, max_turns, result, result2, saved,
          loaded, outs, obj, args, args_after, sent>>

appVars == <<variant, fault, store, stack, released, closeErr, openIdx, sessions,
             tool_calls, idx, content, chunks, final_text, trips, nCalls, nChat,
             nRounds, nReq, nTurns, user, outcome>>

trimVars == <<max_turns, result, result2>>

storeVars == <<saved, loaded>>

agentVars == <<outs, obj, args, args_after, sent>>

\* Python's None, and a missing dictionary key read with .get()
NONE == "<None>"

\* ---------------------------------------------------------------- bounds
\* longest conversation given to trim_history in SpecTrim
MaxLen == 4
\* largest max_turns given to trim_history in SpecTrim
MaxN == 3
\* longest conversation saved in SpecStore
MaxStored == 2
\* the work of one run: a user turn costs one, a tool-call request costs two
MaxWork == 5

\* ------------------------------------------------- main.py: mappings
\* A key that is absent from a mapping reads as NONE with .get(); a mapping is a
\* function from the keys it holds to their values.
Get(m, k) == IF k \in DOMAIN m THEN m[k] ELSE NONE

NoMap == [k \in {} |-> NONE]

\* What an arguments mapping looks like: its keys other than "parameters" (top),
\* and its "parameters" value: absent, None, or a mapping (params).
Args(top, pkind, params) == [top |-> top, pkind |-> pkind, params |-> params]

\* no object parsed, no call made
NoObj == [type |-> "none"]

NoArgs == Args(NoMap, "absent", NoMap)

AgentIdle ==
    /\ outs = << >> /\ obj = NoObj
    /\ args = NoArgs /\ args_after = NoArgs /\ sent = NoObj

\* ------------------------------------------------------------- messages
Msg(role, text, name) == [role |-> role, content |-> text, name |-> name]

\* messages[0].get("role") == "system" on a non-empty list
IsSystem(m) == m.role = "system"

\* -------------------------------------------------- history.trim_history
\* faulty variant: the slice keeps one message too many
LastSlice_one_more(core, k) ==
    IF k = 0 \/ k + 1 >= Len(core) THEN core
    ELSE SubSeq(core, Len(core) - k, Len(core))

\* Python's core[-k:] : the last k elements for 0 < k < len, the whole list for
\* k = 0 (core[-0:] is core[0:]) and for k >= len.
LastSlice(core, k) ==
    IF k = 0 \/ k >= Len(core) THEN core
    ELSE SubSeq(core, Len(core) - k + 1, Len(core))

\* Python's messages[1:]
Tail1(s) == IF s = << >> THEN << >> ELSE SubSeq(s, 2, Len(s))

\* faulty variant: a short conversation is returned without its system message
trim_history_short_returns_core(msgs, n) ==
    IF msgs = << >> THEN msgs
    ELSE LET hasSystem == IsSystem(msgs[1])
             core == IF hasSystem THEN Tail1(msgs) ELSE msgs
         IN  IF Len(core) <= n THEN core
             ELSE IF hasSystem THEN <<msgs[1]>> \o LastSlice(core, n)
                  ELSE LastSlice(core, n)

trim_history(msgs, n) ==
    IF msgs = << >> THEN msgs
    ELSE LET hasSystem == IsSystem(msgs[1])
             core == IF hasSystem THEN Tail1(msgs) ELSE msgs
         IN  IF Len(core) <= n THEN msgs
             ELSE IF hasSystem THEN <<msgs[1]>> \o LastSlice(core, n)
                  ELSE LastSlice(core, n)

\* ------------------------------------------------------------ constants
\* config.HISTORY_MAX_TURNS
HISTORY_MAX_TURNS == 30

\* the history file cannot be parsed
CORRUPT == <<"[", "{", "role:">>

\* The two configured identities, in the order __aenter__ opens them.
Identities == <<"azure", "filesystem">>

\* cli.SYSTEM_PROMPT / mcp_ollama.SYSTEM_PROMPT as the pinned first message
SystemMsg == Msg("system", <<"SYSTEM_PROMPT">>, NONE)

\* ------------------------------------------------------------------ text
RECURSIVE Join(_, _)
\* sep.join(parts)
Join(parts, sep) ==
    IF parts = << >> THEN << >>
    ELSE IF Len(parts) = 1 THEN parts[1]
    ELSE parts[1] \o sep \o Join(Tail(parts), sep)

RECURSIVE Flatten(_)
Flatten(ss) == IF ss = << >> THEN << >> ELSE Head(ss) \o Flatten(Tail(ss))

\* Python truthiness of a .get() result that is None or a string
Truthy(v) == v # NONE /\ v # ""

Lower(c) ==
    CASE c = "Q" -> "q" [] c = "U" -> "u" [] c = "I" -> "i" [] c = "T" -> "t"
      [] c = "E" -> "e" [] c = "X" -> "x" [] c = "H" -> "h" [] OTHER -> c

\* faulty variant: the input is compared as typed
LowerStr_as_typed(s) == s

\* str.lower()
LowerStr(s) == [i \in 1..Len(s) |-> Lower(s[i])]

RECURSIVE LStrip(_)
LStrip(s) == IF s # << >> /\ Head(s) = " " THEN LStrip(Tail(s)) ELSE s

RECURSIVE RStrip(_)
RStrip(s) ==
    IF s # << >> /\ s[Len(s)] = " " THEN RStrip(SubSeq(s, 1, Len(s) - 1)) ELSE s

\* str.strip()
Strip(s) == RStrip(LStrip(s))

\* ------------------------------------------------- the tool servers
\* What a server's session.list_tools() returns when it answers.
RemoteTools(server) ==
    IF server = "azure"
    THEN << [name |-> "ping", description |-> NONE] >>
    ELSE << [name |-> "read", description |-> "Read a file"],
            [name |-> "write", description |-> ""] >>

\* a field value json.dumps cannot encode (a nested object)
UNSERIALISABLE == "<object>"

\* What session.call_tool can do: raise, return a structured payload, or return
\* content blocks (text blocks and other blocks).
CallOutcomes ==
    { [kind |-> "raise", text |-> <<"boom">>, blocks |-> << >>],
      [kind |-> "structured", text |-> <<"payload">>,
       blocks |-> << [type |-> "text", text |-> <<"summary">>] >>],
      [kind |-> "blocks", text |-> << >>,
       blocks |-> << [type |-> "text", text |-> <<"pong">>] >>],
      [kind |-> "blocks", text |-> << >>,
       blocks |-> << [type |-> "text", text |-> <<"pong">>],
                     [type |-> "image", text |-> <<"img">>],
                     [type |-> "resource", text |-> <<"uri", UNSERIALISABLE>>] >>] }

\* no session.call_tool round trip was made
NoOutcome == [kind |-> "none", text |-> << >>, blocks |-> << >>]

Trip(server, op, tool, arguments) ==
    [server |-> server, op |-> op, tool |-> tool, arguments |-> arguments]

\* json.dumps raises on the value: it holds something json cannot encode
JsonFails(value) == \E i \in 1..Len(value) : value[i] = UNSERIALISABLE

\* json.dumps(obj, ensure_ascii=False, indent=2), with str(obj) as the fallback
safe_to_str(value) ==
    IF JsonFails(value) THEN <<"str(">> \o value \o <<")">>
    ELSE <<"json(">> \o value \o <<")">>

\* json.dumps of a server -> summaries map (a sequence of <<server, summaries>>)
DumpTool(t) == <<"{name:", t.name, "description:", t.description, "}">>

DumpTools(ts) == <<"[">> \o Flatten([i \in 1..Len(ts) |-> DumpTool(ts[i])]) \o <<"]">>

JsonDumps(m) ==
    <<"{">> \o Flatten([i \in 1..Len(m) |-> <<m[i][1], ":">> \o DumpTools(m[i][2])])
            \o <<"}">>

\* --------------------------------------- mcp_manager.MCPManager (multi)
\* {"name": t.name, "description": desc or ""}
Summary(t) ==
    [name |-> t.name,
     description |-> IF Truthy(t.description) THEN t.description ELSE ""]

Summaries(server) ==
    [i \in 1..Len(RemoteTools(server)) |-> Summary(RemoteTools(server)[i])]

\* The outcome of an operation: raised, the value returned (or the text of the
\* exception), and the round trips made to tool servers.
Outcome(raised, value, made) == [raised |-> raised, value |-> value, trips |-> made]

\* MCPManager.list_tools(): one round trip per open session, in order; the
\* failAt-th session (0: none) raises.
MCPManager_list_tools(sess, failAt) ==
    LET n == IF failAt \in 1..Len(sess) THEN failAt ELSE Len(sess)
        made == [i \in 1..n |-> Trip(sess[i], "list_tools", NONE, NONE)]
    IN  IF failAt \in 1..Len(sess)
        THEN Outcome(TRUE, <<"list_tools failed">>, made)
        ELSE Outcome(FALSE, [i \in 1..Len(sess) |-> <<sess[i], Summaries(sess[i])>>], made)

InSessions(sess, server) == \E i \in 1..Len(sess) : sess[i] = server

\* the newline-join of the content blocks of a result
BlockText(c) == IF c.type = "text" THEN c.text ELSE safe_to_str(c.text)

\* faulty variant: the content blocks are preferred to the structured payload
NormaliseResult_blocks_first(out) ==
    IF out.blocks # << >>
    THEN Join([i \in 1..Len(out.blocks) |-> BlockText(out.blocks[i])], <<"\n">>)
    ELSE safe_to_str(out.text)

\* mcp_manager.py 75-85: structuredContent if not None, else the joined blocks
NormaliseResult(out) ==
    IF out.kind = "structured" THEN safe_to_str(out.text)
    ELSE Join([i \in 1..Len(out.blocks) |-> BlockText(out.blocks[i])], <<"\n">>)

\* faulty variant: the registry is not consulted before the round trip
MCPManager_call_tool_unchecked(sess, server, tool, arguments, out) ==
    LET made == << Trip(server, "call_tool", tool,
                        IF arguments = NONE THEN "{}" ELSE arguments) >>
    IN  IF out.kind = "raise" \/ ~InSessions(sess, server)
        THEN Outcome(TRUE, out.text, made)
        ELSE Outcome(FALSE, NormaliseResult(out), made)

\* MCPManager.call_tool(server, tool_name, arguments)
MCPManager_call_tool(sess, server, tool, arguments, out) ==
    IF ~InSessions(sess, server)
    THEN Outcome(TRUE, <<"Unknown MCP server: ", server>>, << >>)
    ELSE LET made == << Trip(server, "call_tool", tool,
                             IF arguments = NONE THEN "{}" ELSE arguments) >>
         IN  IF out.kind = "raise" THEN Outcome(TRUE, out.text, made)
             ELSE Outcome(FALSE, NormaliseResult(out), made)

\* ------------------------------------------ mcp_ollama.MCP (single)
\* {"name": t.name, "description": getattr(t, "description", "")}
SingleSummaries(server) == RemoteTools(server)

\* MCP.list_tools(server=None): sessions other than a truthy filter are skipped
MCP_list_tools(sess, server, failAt) ==
    LET sel == SelectSeq(sess, LAMBDA s : ~(Truthy(server) /\ s # server))
        n == IF failAt \in 1..Len(sel) THEN failAt ELSE Len(sel)
        made == [i \in 1..n |-> Trip(sel[i], "list_tools", NONE, NONE)]
    IN  IF failAt \in 1..Len(sel)
        THEN Outcome(TRUE, <<"list_tools failed">>, made)
        ELSE Outcome(FALSE, [i \in 1..Len(sel) |-> <<sel[i], SingleSummaries(sel[i])>>], made)

SingleNormalise(out) ==
    IF out.kind = "structured" THEN <<"json(">> \o out.text \o <<")">>
    ELSE Join([i \in 1..Len(out.blocks) |->
                 IF out.blocks[i].type = "text" THEN out.blocks[i].text
                 ELSE <<"str(">> \o out.blocks[i].text \o <<")">>], <<"\n">>)

\* MCP.call(server, tool, args): self.sessions[server] raises KeyError
MCP_call(sess, server, tool, arguments, out) ==
    IF ~InSessions(sess, server)
    THEN Outcome(TRUE, <<"'", server, "'">>, << >>)
    ELSE LET made == << Trip(server, "call_tool", tool,
                             IF arguments = NONE THEN "{}" ELSE arguments) >>
         IN  IF out.kind = "raise" THEN Outcome(TRUE, out.text, made)
             ELSE Outcome(FALSE, SingleNormalise(out), made)

\* ------------------------------------------------ the model backend
\* A tool-call request: call["function"]["name"] and the fields of its arguments
Req(name, server, tool, arguments) ==
    [name |-> name, server |-> server, tool |-> tool, arguments |-> arguments]

\* The requests the model backend may make.
Requests ==
    { Req("mcp_list_tools", NONE, NONE, NONE),
      Req("mcp_list_tools", "filesystem", NONE, NONE),
      Req("mcp_list_tools", "bogus", NONE, NONE),
      Req("mcp_call_tool", NONE, "ping", "{a}"),
      Req("mcp_call_tool", "azure", NONE, NONE),
      Req("mcp_call_tool", "", "", "{a}"),
      Req("mcp_call_tool", "azure", "ping", NONE),
      Req("mcp_call_tool", "bogus", "ping", "{a}"),
      Req("other_tool", NONE, NONE, NONE) }

\* msg.get("content") of a response: absent or empty, or visible text
Contents == { << >>, <<"Done">> }

\* what input() may return
Inputs ==
    { <<"q", "u", "i", "t">>, <<" ", "E", "X", "I", "T">>, << >>, <<" ">>,
      <<" ", "H", "i", " ">> }

QuitWords == { <<"q", "u", "i", "t">>, <<"e", "x", "i", "t">> }

\* ----------------------------------------- cli.ChatApp._answer_with_tools
MissingParamError == <<"Error: mcp_call_tool requires 'server' and 'tool'.">>

\* faulty variant: the history is trimmed on every append
AppendMessage_trimming(msgs, m) == trim_history(Append(msgs, m), HISTORY_MAX_TURNS)

\* cli.py 56, 113, 124 / mcp_ollama.py 89, 111, 116: messages.append(m)
AppendMessage(msgs, m) == Append(msgs, m)

\* cli.py 79-80, 118-119: if msg.get("content"): assistant_text_chunks.append(...)
Buffer(buffered, text) == IF text # << >> THEN Append(buffered, text) ELSE buffered

\* faulty variant: the chunks are joined with a space
FinalText_joined_with_space(buffered) ==
    Join(SelectSeq(buffered, LAMBDA t : t # << >>), <<" ">>)

\* cli.py 123: "\n".join([t for t in assistant_text_chunks if t])
FinalText(buffered) == Join(SelectSeq(buffered, LAMBDA t : t # << >>), <<"\n">>)

\* faulty variant: the error needs both fields to be missing
MissingField_both(server, tool) == ~Truthy(server) /\ ~Truthy(tool)

\* cli.py 102 / mcp_ollama.py 105: not server or not tool
MissingField(server, tool) == ~Truthy(server) \/ ~Truthy(tool)

\* faulty variant: a turn has at most one round of tool calls
LoopContinues_capped(calls, rounds) == calls # << >> /\ rounds < 1

\* cli.py 83 / mcp_ollama.py 94: "while tool_calls" after rounds rounds; the
\* number of rounds is not part of the condition
LoopContinues(calls, rounds) == calls # << >>

\* faulty variant: the model is called again after every request
AfterRequest_model_each_time(handled, calls) == "chat"

\* cli.py 83-116 / mcp_ollama.py 95-112: the for loop runs over every request
\* before the model is called again
AfterRequest(handled, calls) == IF handled = Len(calls) THEN "chat" ELSE "dispatch"

\* faulty variant: the default is every descriptor of the catalog
MapGet_whole_catalog(m, server) ==
    IF \E i \in 1..Len(m) : m[i][1] = server
    THEN (CHOOSE e \in { m[i] : i \in 1..Len(m) } : e[1] = server)[2]
    ELSE Flatten([i \in 1..Len(m) |-> m[i][2]])

\* tools_map.get(server, [])
MapGet(m, server) ==
    IF \E i \in 1..Len(m) : m[i][1] = server
    THEN (CHOOSE e \in { m[i] : i \in 1..Len(m) } : e[1] = server)[2]
    ELSE << >>

\* What handling one request yields: raised (the exception leaves the loop), the
\* tool_output, the round trips made, and whether the Tool Invoker was called.
Handled(raised, output, made, invoked) ==
    [raised |-> raised, output |-> output, trips |-> made, invoked |-> invoked]

\* faulty variant: a failing mcp.call_tool is not caught
ChatApp_handle_uncaught(sess, req, failAt, out) ==
    IF req.name = "mcp_list_tools"
    THEN LET lt == MCPManager_list_tools(sess, failAt)
         IN  IF lt.raised THEN Handled(TRUE, lt.value, lt.trips, FALSE)
             ELSE Handled(FALSE,
                          JsonDumps(IF Truthy(req.server)
                                    THEN << <<req.server, MapGet(lt.value, req.server)>> >>
                                    ELSE lt.value),
                          lt.trips, FALSE)
    ELSE IF req.name = "mcp_call_tool"
    THEN IF MissingField(req.server, req.tool)
         THEN Handled(FALSE, MissingParamError, << >>, FALSE)
         ELSE LET ct == MCPManager_call_tool(sess, req.server, req.tool, req.arguments, out)
              IN  Handled(ct.raised, ct.value, ct.trips, TRUE)
    ELSE Handled(FALSE, <<"Unknown tool request: ", req.name>>, << >>, FALSE)

\* cli.py: the body of "for call in tool_calls" up to tool_output
ChatApp_handle(sess, req, failAt, out) ==
    IF req.name = "mcp_list_tools"
    THEN LET lt == MCPManager_list_tools(sess, failAt)
         IN  IF lt.raised THEN Handled(TRUE, lt.value, lt.trips, FALSE)
             ELSE Handled(FALSE,
                          JsonDumps(IF Truthy(req.server)
                                    THEN << <<req.server, MapGet(lt.value, req.server)>> >>
                                    ELSE lt.value),
                          lt.trips, FALSE)
    ELSE IF req.name = "mcp_call_tool"
    THEN IF MissingField(req.server, req.tool)
         THEN Handled(FALSE, MissingParamError, << >>, FALSE)
         ELSE LET ct == MCPManager_call_tool(sess, req.server, req.tool, req.arguments, out)
              IN  IF ct.raised
                  THEN Handled(FALSE,
                               <<"Error calling ", req.server, ".", req.tool, ": ">> \o ct.value,
                               ct.trips, TRUE)
                  ELSE Handled(FALSE, ct.value, ct.trips, TRUE)
    ELSE Handled(FALSE, <<"Unknown tool request: ", req.name>>, << >>, FALSE)

\* mcp_ollama.py: the body of "for call in tool_calls" up to out
Single_handle(sess, req, failAt, out) ==
    IF req.name = "mcp_list_tools"
    THEN LET lt == MCP_list_tools(sess, req.server, failAt)
         IN  IF lt.raised THEN Handled(TRUE, lt.value, lt.trips, FALSE)
             ELSE Handled(FALSE, JsonDumps(lt.value), lt.trips, FALSE)
    ELSE IF req.name = "mcp_call_tool"
    THEN IF MissingField(req.server, req.tool)
         THEN Handled(FALSE, <<"Error: need server + tool">>, << >>, FALSE)
         ELSE LET ct == MCP_call(sess, req.server, req.tool, req.arguments, out)
              IN  IF ct.raised
                  THEN Handled(FALSE, <<"Error: ">> \o ct.value, ct.trips, TRUE)
                  ELSE Handled(FALSE, ct.value, ct.trips, TRUE)
    ELSE Handled(FALSE, <<"Unknown tool: ", req.name>>, << >>, FALSE)

Handle(v, sess, req, failAt, out) ==
    IF v = "multi" THEN ChatApp_handle(sess, req, failAt, out)
    ELSE Single_handle(sess, req, failAt, out)

\* ------------------------------------------------------ history files
\* A stored history longer than HISTORY_MAX_TURNS after its system message
LongHistory ==
    <<SystemMsg>> \o
    [i \in 1..HISTORY_MAX_TURNS |->
        Msg(IF i % 2 = 1 THEN "user" ELSE "assistant", <<"h", ToString(i)>>, NONE)]

\* The text of a history file is a sequence of pieces: the punctuation and keys
\* of the JSON array of message objects, and the pieces of its strings between
\* quotes, a quote or a backslash inside a string being escaped by a backslash.
Quote == "\""

Backslash == "\\"

Escape(text) ==
    Flatten([i \in 1..Len(text) |->
               IF text[i] \in {Quote, Backslash} THEN <<Backslash, text[i]>>
               ELSE <<text[i]>>])

DumpString(text) == <<Quote>> \o Escape(text) \o <<Quote>>

\* faulty variant: only role and content are written
DumpMessage_without_name(m) ==
    <<"{", "role:">> \o DumpString(<<m.role>>) \o <<"content:">>
                     \o DumpString(m.content) \o <<"}">>

\* one message object: its keys in insertion order (role, content, then name)
DumpMessage(m) ==
    <<"{", "role:">> \o DumpString(<<m.role>>) \o <<"content:">> \o DumpString(m.content)
        \o (IF m.name = NONE THEN << >> ELSE <<"name:">> \o DumpString(<<m.name>>))
        \o <<"}">>

\* history.py 15: json.dumps(messages, ensure_ascii=False, indent=2)
json_dumps(msgs) ==
    <<"[">> \o Flatten([i \in 1..Len(msgs) |-> DumpMessage(msgs[i])]) \o <<"]">>

\* The result of reading a value at a position of the text: ok, the value, and
\* the position after it.
Bad == [ok |-> FALSE, val |-> << >>, next |-> 0]

Good(v, n) == [ok |-> TRUE, val |-> v, next |-> n]

RECURSIVE ReadString(_, _, _)
\* the pieces from position i up to the closing quote, escapes undone
ReadString(t, i, acc) ==
    IF i > Len(t) THEN Bad
    ELSE IF t[i] = Quote THEN Good(acc, i + 1)
    ELSE IF t[i] = Backslash
    THEN IF i + 1 > Len(t) THEN Bad ELSE ReadString(t, i + 2, Append(acc, t[i + 1]))
    ELSE ReadString(t, i + 1, Append(acc, t[i]))

ParseString(t, i) == IF i <= Len(t) /\ t[i] = Quote THEN ReadString(t, i + 1, << >>) ELSE Bad

ParseMessage(t, i) ==
    IF i + 1 <= Len(t) /\ t[i] = "{" /\ t[i + 1] = "role:"
    THEN LET r == ParseString(t, i + 2)
         IN  IF ~r.ok \/ Len(r.val) # 1 \/ r.next > Len(t) \/ t[r.next] # "content:"
             THEN Bad
             ELSE LET c == ParseString(t, r.next + 1)
                  IN  IF ~c.ok \/ c.next > Len(t) THEN Bad
                      ELSE IF t[c.next] = "}"
                      THEN Good(Msg(r.val[1], c.val, NONE), c.next + 1)
                      ELSE IF t[c.next] = "name:"
                      THEN LET n == ParseString(t, c.next + 1)
                           IN  IF ~n.ok \/ Len(n.val) # 1 \/ n.next > Len(t)
                                  \/ t[n.next] # "}"
                               THEN Bad
                               ELSE Good(Msg(r.val[1], c.val, n.val[1]), n.next + 1)
                      ELSE Bad
    ELSE Bad

RECURSIVE ParseMessages(_, _, _)
ParseMessages(t, i, acc) ==
    IF i > Len(t) THEN Bad
    ELSE IF t[i] = "]" THEN (IF i = Len(t) THEN Good(acc, i + 1) ELSE Bad)
    ELSE LET m == ParseMessage(t, i)
         IN  IF ~m.ok THEN Bad ELSE ParseMessages(t, m.next, Append(acc, m.val))

\* history.py 9: json.loads(text); ok is FALSE where json.loads raises
json_loads(t) == IF t # << >> /\ t[1] = "[" THEN ParseMessages(t, 2, << >>) ELSE Bad

\* What the history file may hold when the program starts.
Stores ==
    { NONE, CORRUPT,
      json_dumps(<<Msg("user", <<"old">>, NONE), Msg("assistant", <<"reply">>, NONE)>>),
      json_dumps(LongHistory) }

\* history.load_history: [] for an absent file and for one json.loads rejects
load_history(file) ==
    IF file = NONE THEN << >>
    ELSE LET r == json_loads(file) IN IF r.ok THEN r.val ELSE << >>

\* history.save_history: written is the number of pieces of the text that reach
\* the file before the write fails (all of them: the save succeeds; -1: the
\* file cannot be opened and stays as it is). Nothing is raised either way.
save_history(file, msgs, written) ==
    IF written < 0 THEN file ELSE SubSeq(json_dumps(msgs), 1, written)

\* How far a write of the text may get: not at all (the file cannot be opened),
\* half way, or to the end.
Cuts(text) == { -1, Len(text) \div 2, Len(text) }

\* faulty variant: an empty history is left without a system message
Seed_keeps_empty(hist) ==
    IF hist # << >> /\ ~IsSystem(hist[1]) THEN <<SystemMsg>> ELSE hist

\* cli.py 35-36: if not self.messages or messages[0].get("role") != "system"
Seed(hist) == IF hist = << >> \/ ~IsSystem(hist[1]) THEN <<SystemMsg>> ELSE hist

\* ---------------------------------------------------------- the program
\* The steps of __aenter__: for each identity, enter the stdio transport, enter
\* the client session, initialize the session (which registers the identity).
OpenSteps == 3 * Len(Identities)

StepIdentity(k) == Identities[((k - 1) \div 3) + 1]

StepKind(k) ==
    CASE (k - 1) % 3 = 0 -> "transport" [] (k - 1) % 3 = 1 -> "session" [] OTHER -> "initialize"

Ctx(identity, kind) == [identity |-> identity, kind |-> kind]

Init ==
    /\ variant \in {"multi", "single"}
    /\ store \in (IF variant = "multi" THEN Stores ELSE {NONE})
    /\ pc = IF variant = "multi" THEN "start" ELSE "open"
    /\ messages = IF variant = "multi" THEN << >> ELSE <<SystemMsg>>
    /\ fault = "none"
    /\ stack = << >> /\ released = << >> /\ closeErr = FALSE /\ openIdx = 0
    /\ sessions = << >> /\ tool_calls = << >> /\ idx = 0 /\ chunks = << >>
    /\ content = << >>
    /\ final_text = << >> /\ trips = << >> /\ nCalls = 0 /\ nChat = 0
    /\ nRounds = 0
    /\ nReq = 0 /\ nTurns = 0
    /\ user = NONE /\ outcome = NoOutcome
    /\ max_turns = 0 /\ result = << >> /\ result2 = << >>
    /\ saved = << >> /\ loaded = << >>
    /\ AgentIdle

\* Where an exception raised in the interactive phase takes the program: cli.py
\* has no handler and no finally, so start() ends at once; mcp_ollama.py is inside
\* "async with MCP()", whose __aexit__ runs first.
AfterRaise(v) == IF v = "multi" THEN "crashed" ELSE "closing"

\* cli.py 34-36: restore the history, seed the system message
LoadHistory ==
    /\ pc = "start"
    /\ messages' = Seed(load_history(store))
    /\ pc' = "open"
    /\ UNCHANGED <<appVars, trimVars, storeVars, agentVars>>

\* One step of MCPManager.__aenter__ / MCP.__aenter__; a failing step raises out
\* of __aenter__, and nothing closes the stack.
OpenStep ==
    /\ pc = "open"
    /\ LET k == openIdx + 1
           id == StepIdentity(k)
           kind == StepKind(k)
       IN \E ok \in BOOLEAN :
            IF ok
            THEN /\ stack' = IF kind = "initialize" THEN stack
                             ELSE Append(stack, Ctx(id, kind))
                 /\ sessions' = IF kind = "initialize" THEN Append(sessions, id)
                                ELSE sessions
                 /\ openIdx' = k
                 /\ pc' = IF k = OpenSteps THEN "index" ELSE "open"
                 /\ fault' = fault
            ELSE /\ fault' = "open"
                 /\ pc' = "crashed"
                 /\ UNCHANGED <<stack, sessions, openIdx>>
    /\ UNCHANGED <<variant, messages, store, released, closeErr, tool_calls, idx,
                   chunks, final_text, trips, nCalls, nChat, nRounds, nReq, nTurns, content,
                   user, outcome, trimVars, storeVars, agentVars>>

\* cli._print_tool_index (failure printed) / mcp_ollama.py 79-83 (failure raised)
PrintToolIndex ==
    /\ pc = "index"
    /\ \E failAt \in 0..Len(sessions) :
         LET lt == IF variant = "multi" THEN MCPManager_list_tools(sessions, failAt)
                   ELSE MCP_list_tools(sessions, NONE, failAt)
         IN  /\ trips' = lt.trips
             /\ IF lt.raised /\ variant = "single"
                THEN fault' = "index" /\ pc' = "closing"
                ELSE fault' = fault /\ pc' = "prompt"
    /\ UNCHANGED <<variant, messages, store, stack, released, closeErr, openIdx,
                   sessions, tool_calls, idx, chunks, final_text, nCalls, nChat, nRounds,
                   nReq, nTurns, content,
                   user, outcome, trimVars, storeVars, agentVars>>

\* input("> "): quit/exit, an empty line, a prompt, or an exception (EOF, Ctrl-C)
ReadInput ==
    /\ pc = "prompt"
    /\ \/ \E raw \in Inputs :
            LET line == Strip(raw)
            IN  /\ user' = line
                /\ IF LowerStr(line) \in QuitWords
                   THEN /\ pc' = "closing"
                        /\ UNCHANGED <<messages, chunks, nChat, nRounds, nTurns, fault>>
                   ELSE IF line = << >>
                   THEN UNCHANGED <<pc, messages, chunks, nChat, nRounds, nTurns, fault>>
                   ELSE
                     /\ nTurns + 2 * nReq < MaxWork
                     /\ messages' = AppendMessage(messages, Msg("user", line, NONE))
                     /\ chunks' = << >>
                     /\ nChat' = 0
                     /\ nRounds' = 0
                     /\ nTurns' = nTurns + 1
                     /\ pc' = "chat"
                     /\ fault' = fault
       \/ /\ fault' = "input"
          /\ pc' = AfterRaise(variant)
          /\ UNCHANGED <<messages, chunks, nChat, nRounds, nTurns, user>>
    /\ UNCHANGED <<variant, store, stack, released, closeErr, openIdx, sessions,
                   tool_calls, idx, final_text, trips, nCalls, nReq, content,
                   outcome, trimVars, storeVars, agentVars>>

\* The responses the backend may give now, within the work left for the run.
Responses ==
    UNION { [1..k -> Requests] : k \in 0..((MaxWork - nTurns - 2 * nReq) \div 2) }

\* llm.chat / ollama_chat returns: buffer the visible text; with no tool-call
\* requests the turn ends with the assistant message, else the requests are handled.
ModelResponds ==
    /\ pc = "chat"
    /\ \E text \in Contents, calls \in Responses :
         /\ content' = text
         /\ chunks' = Buffer(chunks, text)
         /\ nChat' = nChat + 1
         /\ nRounds' = IF calls # << >> THEN nRounds + 1 ELSE nRounds
         /\ nReq' = nReq + Len(calls)
         /\ tool_calls' = calls
         /\ idx' = 0
         /\ IF LoopContinues(calls, nRounds)
            THEN /\ pc' = "dispatch"
                 /\ UNCHANGED <<messages, final_text>>
            ELSE IF variant = "multi"
            THEN /\ final_text' = FinalText(chunks')
                 /\ messages' = AppendMessage(messages, Msg("assistant", final_text', NONE))
                 /\ pc' = "persist"
            ELSE /\ messages' = AppendMessage(messages, Msg("assistant", text, NONE))
                 /\ final_text' = final_text
                 /\ pc' = "prompt"
    /\ UNCHANGED <<variant, fault, store, stack, released, closeErr, openIdx,
                   sessions, trips, nCalls, nTurns, user, outcome, trimVars,
                   storeVars, agentVars>>

\* llm.chat / ollama_chat raises (backend unreachable)
ModelFails ==
    /\ pc = "chat"
    /\ fault' = "model"
    /\ pc' = AfterRaise(variant)
    /\ UNCHANGED <<variant, messages, store, stack, released, closeErr, openIdx,
                   sessions, tool_calls, idx, chunks, final_text, trips, nCalls,
                   nChat, nRounds, nReq, nTurns, content,
                   user, outcome, trimVars, storeVars, agentVars>>

\* One iteration of "for call in tool_calls": handle the request, append the
\* tool message; after the last request the model is called again.
Dispatch ==
    /\ pc = "dispatch"
    /\ LET req == tool_calls[idx + 1]
       IN \E failAt \in 0..Len(sessions), out \in CallOutcomes :
            LET h == Handle(variant, sessions, req, failAt, out)
            IN  /\ trips' = h.trips
                /\ outcome' = IF \E i \in 1..Len(h.trips) : h.trips[i].op = "call_tool"
                              THEN out ELSE NoOutcome
                /\ nCalls' = IF h.invoked THEN nCalls + 1 ELSE nCalls
                /\ IF h.raised
                   THEN /\ fault' = "tool"
                        /\ pc' = AfterRaise(variant)
                        /\ UNCHANGED <<messages, idx>>
                   ELSE /\ messages' = AppendMessage(messages, Msg("tool", h.output, req.name))
                        /\ idx' = idx + 1
                        /\ pc' = AfterRequest(idx + 1, tool_calls)
                        /\ fault' = fault
    /\ UNCHANGED <<variant, store, stack, released, closeErr, openIdx, sessions,
                   tool_calls, chunks, final_text, nChat, nRounds, nReq, nTurns, content,
                   user, trimVars, storeVars, agentVars>>

\* cli.py 60-64: print the answer, trim the history, save it (a failing save is
\* swallowed)
Persist ==
    /\ pc = "persist"
    /\ messages' = trim_history(messages, HISTORY_MAX_TURNS)
    /\ \E written \in Cuts(json_dumps(messages')) :
         store' = save_history(store, messages', written)
    /\ pc' = "prompt"
    /\ content' = << >>      \* msg was local to _answer_with_tools
    /\ UNCHANGED <<variant, fault, stack, released, closeErr, openIdx, sessions,
                   tool_calls, idx, chunks, final_text, trips, nCalls, nChat, nRounds,
                   nReq, nTurns, user, outcome, trimVars, storeVars, agentVars>>

\* Python's reversed(list)
Reverse(s) == [i \in 1..Len(s) |-> s[Len(s) + 1 - i]]

\* MCPManager.__aexit__ / MCP.__aexit__: AsyncExitStack.aclose() exits the
\* contexts last-in first-out; an exit that raises (failAt: which one, 0: none)
\* does not stop the others, and the exception is raised when all have run.
Close ==
    /\ pc = "closing"
    /\ released' = released \o Reverse(stack)
    /\ stack' = << >>
    /\ \E failAt \in 0..Len(stack) :
         /\ closeErr' = (failAt # 0)
         /\ IF fault # "none" THEN pc' = "crashed" /\ fault' = fault
            ELSE IF closeErr' THEN pc' = "crashed" /\ fault' = "close"
            ELSE pc' = "exited" /\ fault' = fault
    /\ user' = NONE         \* the loop's locals end with it
    /\ UNCHANGED <<variant, messages, store, openIdx, sessions, tool_calls, idx,
                   chunks, final_text, trips, nCalls, nChat, nRounds, nReq, nTurns, content,
                   outcome, trimVars, storeVars, agentVars>>

Next ==
    \/ LoadHistory
    \/ OpenStep
    \/ PrintToolIndex
    \/ ReadInput
    \/ ModelResponds
    \/ ModelFails
    \/ Dispatch
    \/ Persist
    \/ Close

Spec == Init /\ [][Next]_vars

\* ------------------------------------------- trim_history on its own
\* The messages the conversations of SpecTrim are built from.
TrimAlphabet ==
    { Msg("system", <<"s">>, NONE), Msg("user", <<"a">>, NONE),
      Msg("assistant", <<"b">>, NONE), Msg("tool", <<"c">>, "mcp_call_tool") }

SeqsUpTo(S, n) == UNION { [1..k -> S] : k \in 0..n }

AppIdle ==
    /\ variant = "multi" /\ fault = "none" /\ store = NONE
    /\ stack = << >> /\ released = << >> /\ closeErr = FALSE /\ openIdx = 0
    /\ sessions = << >> /\ tool_calls = << >> /\ idx = 0 /\ chunks = << >>
    /\ content = << >>
    /\ final_text = << >> /\ trips = << >> /\ nCalls = 0 /\ nChat = 0
    /\ nRounds = 0
    /\ nReq = 0 /\ nTurns = 0
    /\ user = NONE /\ outcome = NoOutcome

InitTrim ==
    /\ pc = "trim"
    /\ messages \in SeqsUpTo(TrimAlphabet, MaxLen)
    /\ max_turns \in 0..MaxN
    /\ result = << >> /\ result2 = << >>
    /\ saved = << >> /\ loaded = << >>
    /\ AgentIdle
    /\ AppIdle

\* result = trim_history(messages, max_turns)
TrimOnce ==
    /\ pc = "trim"
    /\ result' = trim_history(messages, max_turns)
    /\ pc' = "trimmed"
    /\ UNCHANGED <<messages, max_turns, result2, appVars, storeVars, agentVars>>

\* result2 = trim_history(result, max_turns)
TrimAgain ==
    /\ pc = "trimmed"
    /\ result2' = trim_history(result, max_turns)
    /\ pc' = "retrimmed"
    /\ UNCHANGED <<messages, max_turns, result, appVars, storeVars, agentVars>>

NextTrim == TrimOnce \/ TrimAgain

SpecTrim == InitTrim /\ [][NextTrim]_vars

\* ------------------------------ save_history and load_history on their own
\* The messages the conversations of SpecStore are built from: their contents
\* hold nothing, quotes, backslashes and the punctuation of the file's own syntax.
StoreAlphabet ==
    { Msg("system", << >>, NONE),
      Msg("user", <<"say ", Quote, "hi", Quote>>, NONE),
      Msg("assistant", <<Backslash, "n", "]">>, NONE),
      Msg("tool", <<"{", "name:", "}">>, "mcp_call_tool") }

InitStore ==
    /\ pc = "save"
    /\ messages \in SeqsUpTo(StoreAlphabet, MaxStored)
    /\ saved = << >> /\ loaded = << >>
    /\ AgentIdle
    /\ max_turns = 0 /\ result = << >> /\ result2 = << >>
    /\ AppIdle

\* save_history(HISTORY_PATH, messages); then the conversation changes and is
\* saved again, or the file is loaded
SaveStep ==
    /\ pc \in {"save", "save again"}
    /\ \E written \in Cuts(json_dumps(messages)) :
         /\ store' = save_history(store, messages, written)
         /\ saved' = Append(saved, [conv |-> messages,
                                    ok |-> written = Len(json_dumps(messages))])
    /\ pc' \in (IF pc = "save" THEN {"edit", "load"} ELSE {"load"})
    /\ UNCHANGED <<variant, fault, messages, stack, released, closeErr, openIdx,
                   sessions, tool_calls, idx, content, chunks, final_text, trips,
                   nCalls, nChat, nRounds, nReq, nTurns, user, outcome, trimVars, loaded, agentVars>>

\* the conversation in memory becomes another one
EditStep ==
    /\ pc = "edit"
    /\ messages' \in SeqsUpTo(StoreAlphabet, MaxStored)
    /\ pc' = "save again"
    /\ UNCHANGED <<appVars, trimVars, storeVars, agentVars>>

\* loaded = load_history(HISTORY_PATH)
LoadStep ==
    /\ pc = "load"
    /\ loaded' = load_history(store)
    /\ pc' = "loaded"
    /\ UNCHANGED <<messages, appVars, trimVars, saved, agentVars>>

NextStore == SaveStep \/ EditStep \/ LoadStep

SpecStore == InitStore /\ [][NextStore]_vars

\* ------------------------------- main.py: _ensure_monitor_parameters
\* main.py 58-64
SUBSCRIPTION_ID == "*************"

DEFAULT_NAMESPACE == "Microsoft.Compute/virtualMachines"

DEFAULT_INTERVAL == "PT1M"

DEFAULT_AGG == "Average"

DEFAULT_METRICS ==
    "Percentage CPU,Available Memory Bytes,Disk Read Bytes,Disk Write Bytes,Network In Total,Network Out Total"

\* the values str(v).startswith("/subscriptions/") holds of
SubscriptionPaths == { "/subscriptions/s/vm" }

\* main._vm_arm_id
vm_arm_id(subscription, resource_group, vm_name) ==
    <<"/subscriptions/", subscription, "/resourceGroups/", resource_group,
      "/providers/Microsoft.Compute/virtualMachines/", vm_name>>

\* d[k] = v
SetKey(m, k, v) == [x \in DOMAIN m \cup {k} |-> IF x = k THEN v ELSE m[x]]

\* faulty variant: the default replaces the value that is there
setdefault_overwrites(m, k, v) == SetKey(m, k, v)

\* dict.setdefault(k, v)
setdefault(m, k, v) == IF k \in DOMAIN m THEN m ELSE SetKey(m, k, v)

\* a or b
Or(a, b) == IF Truthy(a) THEN a ELSE b

\* main._ensure_monitor_parameters(tool_name, arguments): ret is the mapping
\* returned, caller what the mapping passed in holds afterwards (params and
\* new_args are copies, so no write reaches it).
ensure_monitor_parameters(tool_name, arguments) ==
    IF tool_name # "monitor" THEN [ret |-> arguments, caller |-> arguments]
    ELSE IF Get(arguments.top, "command") # "monitor_metrics_query"
    THEN [ret |-> arguments, caller |-> arguments]
    ELSE
      LET given == IF arguments.pkind = "dict" THEN arguments.params ELSE NoMap
          rg == Or(Get(given, "resource-group"), Get(arguments.top, "resource-group"))
          vm_name == Or(Get(given, "resource"), Get(arguments.top, "resource"))
          p1 == IF "resource" \notin DOMAIN given /\ Truthy(rg) /\ Truthy(vm_name)
                   /\ vm_name \notin SubscriptionPaths
                THEN SetKey(given, "resource", vm_arm_id(SUBSCRIPTION_ID, rg, vm_name))
                ELSE given
          p2 == setdefault(p1, "subscription", SUBSCRIPTION_ID)
          p3 == setdefault(p2, "metric-namespace", DEFAULT_NAMESPACE)
          p4 == setdefault(p3, "metric-names", DEFAULT_METRICS)
          p5 == setdefault(p4, "resource-type", "Microsoft.Compute/virtualMachines")
          p6 == setdefault(p5, "interval", DEFAULT_INTERVAL)
          p7 == setdefault(p6, "aggregation", DEFAULT_AGG)
      IN  [ret |-> Args(arguments.top, "dict", p7), caller |-> arguments]

\* ------------------------------------------------ main.py: what the model says
\* The mappings with some of the keys of choices, each key with one of its values.
Maps(choices) ==
    UNION { { f \in [D -> UNION { choices[k] : k \in D }] : \A k \in D : f[k] \in choices[k] }
            : D \in SUBSET DOMAIN choices }

TopMaps ==
    Maps([k \in {"command", "resource", "resource-group"} |->
            CASE k = "command" -> {"monitor_metrics_query", "monitor_metrics_definitions"}
              [] k = "resource" -> {"vm", "/subscriptions/s/vm", ""}
              [] OTHER -> {"rg"}])

ParamMaps ==
    Maps([k \in {"resource", "resource-group", "interval"} |->
            CASE k = "resource" -> {"vm"}
              [] k = "resource-group" -> {"rg", ""}
              [] OTHER -> {"PT5M", ""}])

\* the arguments mappings a tool call may carry
ArgsMaps ==
    { Args(t, "dict", p) : t \in TopMaps, p \in ParamMaps }
        \cup { Args(t, k, NoMap) : t \in TopMaps, k \in {"absent", "none"} }

\* A parsed JSON value: its type, the keys it holds (for a string: the words it
\* contains), and for a tool call its name (NONE: no "name" key) and whether it
\* has an "arguments" mapping, and which.
Obj(type, keys, name, given, arguments) ==
    [type |-> type, keys |-> keys, name |-> name, given |-> given,
     arguments |-> arguments]

ToolCallObjs ==
    { Obj("dict", {"tool_call"}, n, TRUE, a) : n \in {"monitor", "storage", NONE},
                                               a \in ArgsMaps }
        \cup { Obj("dict", {"tool_call", "final"}, "monitor", FALSE, NoArgs) }

OtherObjs ==
    { Obj("dict", {"final"}, NONE, FALSE, NoArgs),
      Obj("dict", {"note"}, NONE, FALSE, NoArgs),
      Obj("str", {"tool_call"}, NONE, FALSE, NoArgs),
      Obj("str", {}, NONE, FALSE, NoArgs),
      Obj("num", {}, NONE, FALSE, NoArgs) }

\* What ask_ollama may return: text that json.loads rejects, or the text of a
\* JSON value.
ModelOutputs ==
    { [valid |-> FALSE, value |-> Obj("none", {}, NONE, FALSE, NoArgs)] }
        \cup { [valid |-> TRUE, value |-> v] : v \in ToolCallObjs \cup OtherObjs }

\* --------------------------------------------------------- main.py: main
\* faulty variant: an invalid output is always followed by another try
AfterInvalid_retries_again(position) == "retry"

\* main.py 150-161: one retry after an invalid output, then the run ends
AfterInvalid(position) == IF position = "ask" THEN "retry" ELSE "closing"

RetryMsg ==
    Msg("assistant",
        <<"Return ONLY the JSON object (either tool_call or final). No extra text.">>,
        NONE)

InitAgent ==
    /\ variant = "agent" /\ pc = "connect" /\ fault = "none"
    /\ messages = << >> /\ store = NONE
    /\ stack = << >> /\ released = << >> /\ closeErr = FALSE /\ openIdx = 0
    /\ sessions = << >> /\ tool_calls = << >> /\ idx = 0 /\ chunks = << >>
    /\ content = << >> /\ final_text = << >> /\ trips = << >>
    /\ nCalls = 0 /\ nChat = 0 /\ nRounds = 0 /\ nReq = 0 /\ nTurns = 0
    /\ user = NONE /\ outcome = NoOutcome
    /\ max_turns = 0 /\ result = << >> /\ result2 = << >>
    /\ saved = << >> /\ loaded = << >>
    /\ AgentIdle

\* main.py 120-123: async with AsyncExitStack(): enter the transport, enter the
\* session, initialize it; the failAt-th of these raises (0: none)
AgentConnect ==
    /\ pc = "connect"
    /\ \E failAt \in 0..3 :
         /\ stack' = CASE failAt = 1 -> << >>
                       [] failAt = 2 -> << Ctx("azure", "transport") >>
                       [] OTHER -> << Ctx("azure", "transport"), Ctx("azure", "session") >>
         /\ openIdx' = IF failAt = 0 THEN 3 ELSE failAt - 1
         /\ sessions' = IF failAt = 0 THEN <<"azure">> ELSE sessions
         /\ fault' = IF failAt = 0 THEN fault ELSE "open"
         /\ pc' = IF failAt = 0 THEN "catalog" ELSE "closing"
    /\ UNCHANGED <<variant, messages, store, released, closeErr, tool_calls, idx,
                   content, chunks, final_text, trips, nCalls, nChat, nRounds, nReq,
                   nTurns, user, outcome, trimVars, storeVars, agentVars>>

\* main.py 128-133: the tool catalog
AgentCatalog ==
    /\ pc = "catalog"
    /\ trips' = << Trip("azure", "list_tools", NONE, NONE) >>
    /\ \E ok \in BOOLEAN :
         IF ok THEN pc' = "prompt" /\ fault' = fault
         ELSE pc' = "closing" /\ fault' = "index"
    /\ UNCHANGED <<variant, messages, store, stack, released, closeErr, openIdx,
                   sessions, tool_calls, idx, content, chunks, final_text, nCalls,
                   nChat, nRounds, nReq, nTurns, user, outcome, trimVars, storeVars,
                   agentVars>>

\* main.py 136-143: read the prompt, build the three messages
AgentPrompt ==
    /\ pc = "prompt"
    /\ \/ \E raw \in Inputs :
            /\ user' = Strip(raw)
            /\ messages' =
                 << Msg("system", <<"SYSTEM">>, NONE),
                    Msg("assistant",
                        <<"{tool_catalog:">> \o DumpTools(Summaries("azure")) \o <<"}">>,
                        NONE),
                    Msg("user", user', NONE) >>
            /\ pc' = "ask" /\ fault' = fault
       \/ /\ fault' = "input" /\ pc' = "closing"
          /\ UNCHANGED <<messages, user>>
    /\ UNCHANGED <<variant, store, stack, released, closeErr, openIdx, sessions,
                   tool_calls, idx, content, chunks, final_text, trips, nCalls,
                   nChat, nRounds, nReq, nTurns, outcome, trimVars, storeVars,
                   agentVars>>

\* main.py 144-161: ask the model and parse its output; one retry
AgentAsk ==
    /\ pc \in {"ask", "retry"}
    /\ nChat' = nChat + 1
    /\ \/ \E o \in ModelOutputs :
            /\ outs' = Append(outs, o)
            /\ fault' = fault
            /\ IF o.valid
               THEN /\ obj' = o.value
                    /\ pc' = "execute"
                    /\ messages' = messages
               ELSE /\ obj' = obj
                    /\ pc' = AfterInvalid(pc)
                    /\ messages' = IF pc = "ask" THEN Append(messages, RetryMsg)
                                   ELSE messages
       \/ /\ fault' = "model" /\ pc' = "closing"
          /\ UNCHANGED <<outs, obj, messages>>
    /\ UNCHANGED <<variant, store, stack, released, closeErr, openIdx, sessions,
                   tool_calls, idx, content, chunks, final_text, trips, nCalls,
                   nRounds, nReq, nTurns, user, outcome, trimVars, storeVars, args,
                   args_after, sent>>

\* main.py 164-179: call the tool, print the final answer, or print the object
AgentExecute ==
    /\ pc = "execute"
    /\ pc' = "closing"
    /\ IF obj.type = "num"                       \* "tool_call" in 5: TypeError
       THEN fault' = "type" /\ UNCHANGED <<args, args_after, sent, nCalls, outcome>>
       ELSE IF "tool_call" \in obj.keys
       THEN IF obj.type # "dict" \/ obj.name = NONE   \* TypeError, KeyError
            THEN /\ fault' = IF obj.type # "dict" THEN "type" ELSE "key"
                 /\ UNCHANGED <<args, args_after, sent, nCalls, outcome>>
            ELSE /\ args' = IF obj.given /\ (DOMAIN obj.arguments.top # {}
                                             \/ obj.arguments.pkind # "absent")
                            THEN obj.arguments ELSE NoArgs
                 /\ LET e == ensure_monitor_parameters(obj.name, args')
                    IN  /\ args_after' = e.caller
                        /\ sent' = [type |-> "call", name |-> obj.name,
                                    arguments |-> e.ret]
                 /\ nCalls' = nCalls + 1
                 /\ \E out \in CallOutcomes :
                      /\ outcome' = out
                      /\ fault' = IF out.kind = "raise" THEN "tool" ELSE fault
       ELSE fault' = fault /\ UNCHANGED <<args, args_after, sent, nCalls, outcome>>
    /\ UNCHANGED <<variant, messages, store, stack, released, closeErr, openIdx,
                   sessions, tool_calls, idx, content, chunks, final_text, trips,
                   nChat, nRounds, nReq, nTurns, user, trimVars, storeVars, outs, obj>>

\* the end of "async with AsyncExitStack()": the contexts exit last-in first-out
AgentClose ==
    /\ pc = "closing"
    /\ released' = released \o [i \in 1..Len(stack) |-> stack[Len(stack) + 1 - i]]
    /\ stack' = << >>
    /\ \E failAt \in 0..Len(stack) :
         /\ closeErr' = (failAt # 0)
         /\ IF fault # "none" THEN pc' = "crashed" /\ fault' = fault
            ELSE IF closeErr' THEN pc' = "crashed" /\ fault' = "close"
            ELSE pc' = "exited" /\ fault' = fault
    /\ UNCHANGED <<variant, messages, store, openIdx, sessions, tool_calls, idx,
                   content, chunks, final_text, trips, nCalls, nChat, nRounds, nReq,
                   nTurns, user, outcome, trimVars, storeVars, agentVars>>

NextAgent ==
    \/ AgentConnect
    \/ AgentCatalog
    \/ AgentPrompt
    \/ AgentAsk
    \/ AgentExecute
    \/ AgentClose

SpecAgent == InitAgent /\ [][NextAgent]_vars

\* ------------------------------------------------ claims on trim_history
NonSystemCount(s) == Cardinality({ i \in 1..Len(s) : ~IsSystem(s[i]) })

BeginsWithSystem(s) == s # << >> /\ IsSystem(s[1])

\* C6 (as stated): the result of trim begins with a system message iff the input
\* did, and holds at most maxEntries messages whose role is not system.
C6_TrimKeepsSystemAndBound ==
    pc = "trimmed" =>
        /\ BeginsWithSystem(result) <=> BeginsWithSystem(messages)
        /\ NonSystemCount(result) <= max_turns

\* C7: trim is idempotent: trimming the trimmed conversation again with the same
\* maxEntries changes nothing.
C7_TrimIdempotent ==
    pc = "retrimmed" => result2 = result

\* C7 witness: a conversation without a leading system message was cut, the
\* retained window starts with a system-role message, and it was trimmed again.
C7_Witness ==
    /\ pc = "retrimmed"
    /\ ~BeginsWithSystem(messages)
    /\ result # messages
    /\ BeginsWithSystem(result)

\* The reference result of C8: unchanged when the messages after the leading
\* system message number at most n, else the leading system message (if any)
\* followed by exactly the last n of them.
ExactLast(core, n) == SubSeq(core, Len(core) - n + 1, Len(core))

TrimReference(msgs, n) ==
    LET hasSystem == BeginsWithSystem(msgs)
        core == IF hasSystem THEN Tail1(msgs) ELSE msgs
    IN  IF Len(core) <= n THEN msgs
        ELSE (IF hasSystem THEN <<msgs[1]>> ELSE << >>) \o ExactLast(core, n)

\* C8 (as stated): trim(conversation, maxEntries) equals the reference result.
C8_TrimEqualsReference ==
    pc = "trimmed" => result = TrimReference(messages, max_turns)

\* ------------------------------------------- claims on the chat programs
\* The request handled last and the tool message appended for it: defined while
\* a round is under way (pc = "dispatch") or just completed (pc = "chat").
InRound == pc \in {"dispatch", "chat"} /\ idx >= 1

LastReq == tool_calls[idx]

LastMsg == messages[Len(messages)]

Falsy(v) == v = NONE \/ v = ""

\* C1 (as stated): during a user turn no failure of a tool-side operation escapes
\* the Loop Controller: the turn never aborts with an exception caused by a tool
\* server.
C1_NoToolFailureEscapes == fault # "tool"

\* C2 (as stated): on every exit path, every context (transport, session) that
\* was opened has been closed when the run ends.
C2_AllOpenedAreClosed ==
    pc \in {"exited", "crashed"} => stack = << >>

\* C3 (as stated): when one session fails to open while another opened
\* successfully, startup is not a process-ending fault.
C3_PartialOpenIsNotFatal ==
    ~(pc = "crashed" /\ fault = "open" /\ sessions # << >>)

\* The text the controller appends when the invocation fails with the
\* unknown-server condition (ValueError in cli.py, KeyError in mcp_ollama.py).
UnknownServerText(v, server, tool) ==
    IF v = "multi"
    THEN <<"Error calling ", server, ".", tool, ": ", "Unknown MCP server: ", server>>
    ELSE <<"Error: ", "'", server, "'">>

UnknownIdentity(req) ==
    ~Falsy(req.server) /\ \A i \in 1..Len(sessions) : sessions[i] # req.server

\* C4 (as stated): for an identity not in the session registry, both the catalog
\* query and the tool invocation fail with the unknown-server condition, and
\* neither makes a round trip to a tool server.
C4_UnknownIdentityFailsWithoutTrip ==
    (InRound /\ UnknownIdentity(LastReq)
             /\ ( LastReq.name = "mcp_list_tools"
                  \/ (LastReq.name = "mcp_call_tool" /\ ~Falsy(LastReq.tool)) ))
    => /\ trips = << >>
       /\ LastMsg.content = UnknownServerText(variant, LastReq.server, LastReq.tool)

\* C4 (amended): for an identity not in the session registry, the tool invocation
\* fails with the unknown-server condition without any round trip; the catalog
\* query for it does not fail: its result holds no descriptor for that identity
\* (an empty list under the identity in cli.py, which still queries every open
\* session; an empty map and no round trip in mcp_ollama.py).
C4_UnknownIdentityAmended ==
    (InRound /\ UnknownIdentity(LastReq)) =>
        /\ (LastReq.name = "mcp_call_tool" /\ ~Falsy(LastReq.tool)) =>
              /\ trips = << >>
              /\ LastMsg.content = UnknownServerText(variant, LastReq.server, LastReq.tool)
        /\ LastReq.name = "mcp_list_tools" =>
              IF variant = "multi"
              THEN /\ LastMsg.content = <<"{", LastReq.server, ":", "[", "]", "}">>
                   /\ Len(trips) = Len(sessions)
                   /\ \A i \in 1..Len(trips) :
                        trips[i].server = sessions[i] /\ trips[i].op = "list_tools"
              ELSE /\ LastMsg.content = <<"{", "}">>
                   /\ trips = << >>

\* C4 witness: both an invocation and a catalog query against an unknown identity
\* have been handled in one round.
C4_Witness ==
    /\ pc = "chat" /\ idx = 2
    /\ tool_calls[1].name = "mcp_call_tool" /\ tool_calls[1].server = "bogus"
    /\ tool_calls[2].name = "mcp_list_tools" /\ tool_calls[2].server = "bogus"
    /\ messages[Len(messages) - 1].content =
          UnknownServerText(variant, "bogus", tool_calls[1].tool)

\* The fixed missing-parameter error string of each program.
MissingText(v) ==
    IF v = "multi" THEN <<"Error: mcp_call_tool requires 'server' and 'tool'.">>
    ELSE <<"Error: need server + tool">>

\* C5: a generic tool-invocation request whose server or tool is missing or empty
\* never reaches the Tool Invoker (the count of invocations is unchanged, no round
\* trip is made) and gets the fixed missing-parameter tool message, whatever its
\* other arguments.
C5_MissingFieldNeverInvokes ==
    [][ (pc = "dispatch" /\ tool_calls[idx + 1].name = "mcp_call_tool"
           /\ (Falsy(tool_calls[idx + 1].server) \/ Falsy(tool_calls[idx + 1].tool)))
        => /\ nCalls' = nCalls
           /\ trips' = << >>
           /\ messages' = Append(messages,
                                 Msg("tool", MissingText(variant), "mcp_call_tool")) ]_vars

\* C5 witness: a request with the server omitted and one with the tool omitted
\* have been handled, and the Tool Invoker was never called.
C5_Witness ==
    /\ pc = "chat" /\ idx = 2 /\ nCalls = 0
    /\ tool_calls[1].name = "mcp_call_tool" /\ tool_calls[1].server = NONE
    /\ tool_calls[1].tool = "ping"
    /\ tool_calls[2].name = "mcp_call_tool" /\ tool_calls[2].tool = NONE
    /\ tool_calls[2].server = "azure"
    /\ LastMsg.content = MissingText(variant)

\* C9: within a round each handled request gets exactly one tool-role message
\* tagged with its function name, in request order, and the model is called again
\* only when the messages of all requests of the round have been appended.
C9_RoundAppendsInRequestOrder ==
    [][ /\ (pc = "dispatch" /\ pc' \in {"dispatch", "chat"}) =>
              /\ Len(messages') = Len(messages) + 1
              /\ SubSeq(messages', 1, Len(messages)) = messages
              /\ messages'[Len(messages')].role = "tool"
              /\ messages'[Len(messages')].name = tool_calls[idx + 1].name
              /\ idx' = idx + 1
              /\ tool_calls' = tool_calls
        /\ (pc = "dispatch" /\ pc' = "chat") => idx' = Len(tool_calls)
        /\ (pc = "dispatch" /\ pc' = "dispatch") => idx' < Len(tool_calls)
        /\ (pc = "chat" /\ pc' = "dispatch") =>
              idx' = 0 /\ tool_calls' # << >> /\ messages' = messages ]_vars

\* C9 witness: a round of two requests with different function names is complete,
\* its two tool messages are the last two of the conversation, in request order.
C9_Witness ==
    /\ pc = "chat" /\ idx = 2 /\ Len(tool_calls) = 2
    /\ tool_calls[1].name = "other_tool" /\ tool_calls[2].name = "mcp_call_tool"
    /\ messages[Len(messages) - 1].role = "tool"
    /\ messages[Len(messages) - 1].name = "other_tool"
    /\ LastMsg.role = "tool" /\ LastMsg.name = "mcp_call_tool"

\* the newline-join, written out
NewlineJoined(parts) ==
    IF parts = << >> THEN << >>
    ELSE parts[1] \o Flatten([i \in 1..(Len(parts) - 1) |-> <<"\n">> \o parts[i + 1]])

\* C10 (cli.py): a turn ends exactly when a model response carries no tool-call
\* request; the controller then appends one assistant message whose content is
\* the newline-join of the visible text buffered from this turn's responses and
\* returns that text. A response with neither content nor requests gives the
\* empty answer; a turn whose only visible text is a final "Done" returns "Done".
C10_TurnEndsWithJoinedText ==
    [][ variant = "multi" =>
        /\ (pc = "chat" /\ nChat' = nChat + 1) =>
              /\ (pc' = "persist") <=> (tool_calls' = << >>)
              /\ chunks' = IF content' = << >> THEN chunks ELSE Append(chunks, content')
        /\ (pc = "prompt" /\ pc' = "chat") => chunks' = << >> /\ nChat' = 0
        /\ (pc # "persist" /\ pc' = "persist") =>
              /\ pc = "chat" /\ nChat' = nChat + 1
              /\ final_text' = NewlineJoined(chunks')
              /\ messages' = Append(messages, Msg("assistant", final_text', NONE))
              /\ (chunks = << >> /\ content' = << >>) => final_text' = << >>
              /\ (chunks = << >> /\ content' = <<"Done">>) => final_text' = <<"Done">> ]_vars

\* C10 witness: a turn with two rounds that both carried visible text has ended,
\* and the answer is the two texts joined by a newline.
C10_Witness ==
    /\ variant = "multi" /\ pc = "persist" /\ nChat = 2
    /\ final_text = <<"Done", "\n", "Done">>
    /\ LastMsg = Msg("assistant", <<"Done", "\n", "Done">>, NONE)

\* ---------------------------------------- conversation and shutdown claims
\* m is an assistant message carrying a tool-call request for the tool `name`
RequestsTool(m, name) ==
    /\ m.role = "assistant"
    /\ "tool_calls" \in DOMAIN m
    /\ \E k \in 1..Len(m.tool_calls) : m.tool_calls[k].name = name

\* C11 (as stated): every tool-role message of the conversation is preceded,
\* somewhere earlier, by an assistant message that requested that tool.
C11_ToolMessageFollowsItsRequest ==
    \A i \in 1..Len(messages) :
        messages[i].role = "tool" =>
            \E j \in 1..(i - 1) : RequestsTool(messages[j], messages[i].name)

IsPrefix(s, t) == Len(s) <= Len(t) /\ SubSeq(t, 1, Len(s)) = s

InTurn == pc \in {"chat", "dispatch"}

\* C12: the conversation is append-only during a turn (every step from the
\* appending of the user message to the appending of the final assistant message
\* keeps the messages already there, in place), and a step that removes or moves
\* a message is the trim between turns, right after the final assistant message.
C12_AppendOnlyDuringTurn ==
    [][ /\ (InTurn \/ (pc = "prompt" /\ pc' = "chat")) => IsPrefix(messages, messages')
        /\ ~IsPrefix(messages, messages') =>
              /\ pc = "persist" /\ pc' = "prompt"
              /\ messages[Len(messages)].role = "assistant" ]_vars

\* C12 witness: a turn on a long restored history has ended and the trim between
\* turns has dropped the oldest messages.
C12_Witness ==
    /\ pc = "prompt" /\ nTurns = 1
    /\ Len(messages) = HISTORY_MAX_TURNS + 1
    /\ messages[1] = SystemMsg
    /\ messages[2].content = <<"h", "3">>
    /\ messages[Len(messages)].role = "assistant"

\* The contexts __aenter__ has entered so far, in acquisition order.
Acquired ==
    LET entered == SelectSeq([k \in 1..openIdx |-> k],
                             LAMBDA k : StepKind(k) # "initialize")
    IN  [i \in 1..Len(entered) |-> Ctx(StepIdentity(entered[i]), StepKind(entered[i]))]

RunEnded == pc \in {"exited", "crashed"}

\* C13 (as stated): when the run ends, the contexts have been released in the
\* reverse of their acquisition order, whatever subset had been acquired.
C13_ReleasedInReverseOrder ==
    RunEnded => released = [i \in 1..Len(Acquired) |-> Acquired[Len(Acquired) + 1 - i]]

\* C14 (as stated): close() attempts the teardown of every open context even when
\* one teardown fails, and never raises to its caller.
C14_CloseIsBestEffort ==
    (RunEnded /\ closeErr) =>
        /\ stack = << >>
        /\ Len(released) = Len(Acquired)
        /\ fault # "close"

\* C16 (as stated): after the registry has been closed, a call against any
\* identity, one that was open before included, fails with the no-such-server
\* error without a round trip to the closed session.
C16_ClosedIdentityNotAddressable ==
    (RunEnded /\ released # << >>) =>
        \A i \in 1..Len(Identities), out \in CallOutcomes :
            LET r == MCPManager_call_tool(sessions, Identities[i], "ping", NONE, out)
            IN  /\ r.raised
                /\ r.value = <<"Unknown MCP server: ", Identities[i]>>
                /\ r.trips = << >>

\* C19: a save that succeeds followed by a load yields the saved conversation,
\* message for message and field for field, whatever was saved before; and
\* whatever the saves did, load returns the conversation of one successful save or
\* the empty conversation, never a mix: every text cut short is rejected whole.
C19_SaveLoadRoundTrip ==
    pc = "loaded" =>
        LET last == saved[Len(saved)]
            text == json_dumps(last.conv)
        IN  /\ last.ok => loaded = last.conv
            /\ \/ loaded = << >>
               \/ \E i \in 1..Len(saved) : saved[i].ok /\ loaded = saved[i].conv
            /\ \A k \in 0..(Len(text) - 1) : load_history(SubSeq(text, 1, k)) = << >>

\* C19 witness: a conversation with quotes in a content and a named tool message
\* was saved over an earlier, different save and loaded back.
C19_Witness ==
    /\ pc = "loaded" /\ Len(saved) = 2
    /\ saved[1].ok /\ saved[2].ok
    /\ saved[1].conv # saved[2].conv
    /\ Len(saved[2].conv) = 2
    /\ saved[2].conv[1].content = <<"say ", Quote, "hi", Quote>>
    /\ saved[2].conv[2].role = "tool"
    /\ loaded = saved[2].conv

\* ------------------------------------------------ catalog listing claims
\* The descriptors of an identity as the listing renders them (cli.py normalises
\* an absent description to "", mcp_ollama.py passes it on).
DescriptorText(v, id) ==
    IF id = "azure"
    THEN <<"{name:", "ping", "description:", IF v = "multi" THEN "" ELSE NONE, "}">>
    ELSE <<"{name:", "read", "description:", "Read a file", "}",
           "{name:", "write", "description:", "", "}">>

EntryText(v, id) == <<id, ":", "[">> \o DescriptorText(v, id) \o <<"]">>

\* The listing expected for a filter: every open session when there is no filter,
\* the one identity when it is open, nothing when it is unknown.
ExpectedListing(v, filter) ==
    IF Falsy(filter)
    THEN <<"{">> \o Flatten([i \in 1..Len(sessions) |-> EntryText(v, sessions[i])]) \o <<"}">>
    ELSE IF \E i \in 1..Len(sessions) : sessions[i] = filter
    THEN <<"{">> \o EntryText(v, filter) \o <<"}">>
    ELSE IF v = "multi" THEN <<"{", filter, ":", "[", "]", "}">>
    ELSE <<"{", "}">>

\* C15: a catalog-listing request that has been answered got, for an unknown
\* filter, an empty result; for a known filter, that identity's descriptors only;
\* with no filter, the descriptors of every open session. And when the sessions
\* answer, a listing filtered by an unknown identity does not raise.
C15_ListingFilter ==
    /\ (InRound /\ LastReq.name = "mcp_list_tools") =>
          LastMsg.content = ExpectedListing(variant, LastReq.server)
    /\ (pc = "dispatch" /\ tool_calls[idx + 1].name = "mcp_list_tools"
          /\ UnknownIdentity(tool_calls[idx + 1])) =>
          \A out \in CallOutcomes :
              ~Handle(variant, sessions, tool_calls[idx + 1], 0, out).raised

\* C15 witness: a listing filtered by a known identity and one filtered by an
\* unknown identity have been answered in one round.
C15_Witness ==
    /\ pc = "chat" /\ idx = 2
    /\ tool_calls[1].name = "mcp_list_tools" /\ tool_calls[1].server = "filesystem"
    /\ tool_calls[2].name = "mcp_list_tools" /\ tool_calls[2].server = "bogus"
    /\ messages[Len(messages) - 1].content =
          <<"{">> \o EntryText(variant, "filesystem") \o <<"}">>

\* --------------------------------------------------- failed invocations
\* The request being handled is an invocation with server and tool present.
CompleteCall(req) ==
    req.name = "mcp_call_tool" /\ ~Falsy(req.server) /\ ~Falsy(req.tool)

\* The detail of a failed invocation: the text of the exception raised.
FailureDetail(v, req, out) ==
    IF \E i \in 1..Len(sessions) : sessions[i] = req.server
    THEN out.text
    ELSE IF v = "multi" THEN <<"Unknown MCP server: ", req.server>>
    ELSE <<"'", req.server, "'">>

\* The step handles the invocation req, which fails: its server is unknown, or
\* the round trip to the session raised.
FailedCallStep(req) ==
    /\ pc = "dispatch" /\ req = tool_calls[idx + 1]
    /\ CompleteCall(req)
    /\ \/ ~(\E i \in 1..Len(sessions) : sessions[i] = req.server)
       \/ outcome'.kind = "raise"

\* A failed invocation adds the one tool message with the given content; nothing
\* else of the conversation, the registry or the turn changes, and no exception
\* leaves the loop.
OnlyGainsToolMessage(req, text) ==
    /\ messages' = Append(messages, Msg("tool", text, req.name))
    /\ idx' = idx + 1
    /\ pc' \in {"dispatch", "chat"}
    /\ UNCHANGED <<fault, sessions, stack, released, store, tool_calls, chunks,
                   final_text, nChat, nTurns, user>>

\* C17 (as stated): every failed invocation with server and tool present becomes
\* the tool message "Error calling {identity}.{toolName}: {detail}".
C17_FailureBecomesErrorCalling ==
    [][ \A req \in Requests :
          FailedCallStep(req) =>
            OnlyGainsToolMessage(req,
                <<"Error calling ", req.server, ".", req.tool, ": ">>
                    \o FailureDetail(variant, req, outcome')) ]_vars

\* C17 (amended): every failed invocation with server and tool present becomes a
\* tool message holding the detail of the failure, of the form "Error calling
\* {identity}.{toolName}: {detail}" in cli.py and "Error: {detail}" in
\* mcp_ollama.py; the conversation gains that message and nothing else changes.
C17_FailureBecomesToolMessage ==
    [][ \A req \in Requests :
          FailedCallStep(req) =>
            OnlyGainsToolMessage(req,
                (IF variant = "multi"
                 THEN <<"Error calling ", req.server, ".", req.tool, ": ">>
                 ELSE <<"Error: ">>) \o FailureDetail(variant, req, outcome')) ]_vars

\* C17 witness: in one round an invocation of an unknown server and one whose
\* round trip raised have both become tool messages.
C17_Witness ==
    /\ pc = "chat" /\ idx = 2
    /\ CompleteCall(tool_calls[1]) /\ tool_calls[1].server = "bogus"
    /\ CompleteCall(tool_calls[2]) /\ tool_calls[2].server = "azure"
    /\ outcome.kind = "raise"
    /\ LastMsg.role = "tool"
    /\ LastMsg.content[Len(LastMsg.content)] = "boom"

\* ------------------------------------------------------ persistence claims
\* The conversation a turn ends with, as the trim between turns leaves it: whole
\* when it fits, else its first message and its last HISTORY_MAX_TURNS ones.
KeptAfterTurn(msgs) ==
    IF Len(msgs) <= HISTORY_MAX_TURNS + 1 THEN msgs
    ELSE <<msgs[1]>> \o SubSeq(msgs, Len(msgs) - HISTORY_MAX_TURNS + 1, Len(msgs))

QuitLines == { <<"q", "u", "i", "t">>, <<"E", "X", "I", "T">> }

\* C20: at the prompt, a line reading quit or exit in any letter case ends the
\* loop with no message appended and no model call, and the close that follows
\* exits every open context; an empty line changes nothing and leads to the next
\* prompt; every other line starts exactly one user turn with that line as the
\* user message.
C20_PromptInputs ==
    [][ /\ (pc = "prompt" /\ fault' = fault) =>
              /\ user' \in QuitLines =>
                    /\ pc' = "closing"
                    /\ UNCHANGED <<messages, store, nChat, nTurns, trips, nCalls>>
              /\ user' = << >> =>
                    /\ pc' = "prompt"
                    /\ UNCHANGED <<messages, store, nChat, nTurns, trips, nCalls,
                                   tool_calls, idx, stack, sessions>>
              /\ (user' \notin QuitLines /\ user' # << >>) =>
                    /\ pc' = "chat"
                    /\ nTurns' = nTurns + 1
                    /\ messages' = Append(messages, Msg("user", user', NONE))
        /\ (pc = "closing" /\ fault = "none") =>
              /\ stack' = << >>
              /\ released' = [i \in 1..Len(stack) |-> stack[Len(stack) + 1 - i]]
              /\ Len(released') = 2 * Len(sessions)
              /\ pc' \in {"exited", "crashed"} ]_vars

\* C20 witness: after one user turn the line EXIT has been read, and the program
\* is about to close its sessions.
C20_Witness ==
    /\ pc = "closing" /\ fault = "none"
    /\ user = <<"E", "X", "I", "T">>
    /\ nTurns = 1
    /\ Len(stack) = 4

\* ------------------------------------------------- result normalisation
RECURSIVE RenderedFrom(_, _)
\* The blocks from the i-th on, each on a line of its own: the text of a text
\* block, the JSON of the fields of another block, or its str() when JSON fails.
RenderedFrom(blocks, i) ==
    IF i > Len(blocks) THEN << >>
    ELSE LET b == blocks[i]
             line == IF b.type = "text" THEN b.text
                     ELSE IF \E k \in 1..Len(b.text) : b.text[k] = UNSERIALISABLE
                     THEN <<"str(">> \o b.text \o <<")">>
                     ELSE <<"json(">> \o b.text \o <<")">>
         IN  IF i = Len(blocks) THEN line
             ELSE line \o <<"\n">> \o RenderedFrom(blocks, i + 1)

\* C21: in cli.py, the tool message of an invocation that succeeded holds one
\* string: the serialisation of the structured payload alone when the result has
\* one (its content blocks are ignored), else the newline-join, in block order, of
\* the text of each text block and a textual rendering of each other block.
C21_ResultNormalised ==
    (InRound /\ variant = "multi" /\ outcome.kind \in {"structured", "blocks"}) =>
        LastMsg.content =
            IF outcome.kind = "structured" THEN <<"json(">> \o outcome.text \o <<")">>
            ELSE RenderedFrom(outcome.blocks, 1)

\* C21 witness: a result of three blocks (text, image, resource) has become the
\* tool message.
C21_Witness ==
    /\ InRound /\ variant = "multi"
    /\ outcome.kind = "blocks" /\ Len(outcome.blocks) = 3
    /\ LastMsg.role = "tool"
    /\ LastMsg.content = <<"pong", "\n", "json(", "img", ")", "\n",
                           "str(", "uri", UNSERIALISABLE, ")">>

\* ------------------------------------------------------ rounds of a turn
\* C22: a turn has no round bound of its own. Every response of the model that
\* carries tool-call requests is followed by the handling of its requests,
\* however many rounds came before; a turn ends normally only on a response with
\* no request, and then the model has been called exactly once more than the
\* number of rounds that carried requests.
C22_TurnEndsOnlyWithoutRequests ==
    [][ /\ (pc = "chat" /\ fault' = fault) =>
              /\ nChat' = nChat + 1
              /\ tool_calls' # << >> => pc' = "dispatch"
              /\ tool_calls' = << >> => pc' \in {"persist", "prompt"}
        /\ (InTurn /\ pc' \notin {"chat", "dispatch"} /\ fault' = fault) =>
              /\ tool_calls' = << >>
              /\ nChat' = nRounds' + 1 ]_vars

\* C22 witness: a turn of two rounds of tool calls has ended on the third call of
\* the model.
C22_Witness ==
    /\ pc = "persist" /\ fault = "none"
    /\ nRounds = 2 /\ nChat = 3
    /\ tool_calls = << >>
    /\ LastMsg.role = "assistant"

\* ---------------------------------------------- shape of the conversation
\* C25: in cli.py, once start has loaded or seeded the conversation, its first
\* message has role system through every turn, tool round, trim and save; and at
\* every prompt that follows a completed turn at most HISTORY_MAX_TURNS messages
\* follow that system message.
C25_SystemFirstAndBounded ==
    (variant = "multi" /\ pc # "start") =>
        /\ messages # << >>
        /\ messages[1].role = "system"
        /\ (pc = "prompt" /\ nTurns >= 1) => Len(messages) - 1 <= HISTORY_MAX_TURNS

\* C25 witness: two turns on a long restored history have each been trimmed, one
\* of them after a round of tool calls.
C25_Witness ==
    /\ variant = "multi" /\ pc = "prompt" /\ nTurns = 2
    /\ Len(messages) = HISTORY_MAX_TURNS + 1
    /\ messages[1] = SystemMsg
    /\ \E i \in 2..Len(messages) : messages[i].role = "tool"

\* ----------------------------------------- claims on the single-shot agent
\* C23: _ensure_monitor_parameters is non-destructive. For the tool call made:
\* the caller's arguments mapping holds afterwards what it held before; every key
\* of arguments other than "parameters" and every key of arguments["parameters"]
\* has its value in the result; and when the tool is not monitor or the command
\* is not monitor_metrics_query the result is the arguments, unchanged.
C23_EnsureIsNonDestructive ==
    sent.type = "call" =>
        LET ret == sent.arguments
        IN  /\ args_after = args
            /\ \A k \in DOMAIN args.top :
                  k \in DOMAIN ret.top /\ ret.top[k] = args.top[k]
            /\ args.pkind = "dict" =>
                  /\ ret.pkind = "dict"
                  /\ \A k \in DOMAIN args.params :
                        k \in DOMAIN ret.params /\ ret.params[k] = args.params[k]
            /\ (sent.name # "monitor"
                  \/ "command" \notin DOMAIN args.top
                  \/ args.top["command"] # "monitor_metrics_query") => ret = args

\* C23 witness: a monitor_metrics_query call whose parameters held an empty
\* interval and no resource was completed: the resource id built, the defaults
\* added, the empty interval kept.
C23_Witness ==
    /\ sent.type = "call" /\ sent.name = "monitor"
    /\ args.pkind = "dict"
    /\ DOMAIN args.params = {"interval", "resource-group"}
    /\ args.params["interval"] = ""
    /\ DOMAIN args.top = {"command", "resource"}
    /\ args.top["command"] = "monitor_metrics_query"
    /\ args.top["resource"] = "vm"
    /\ sent.arguments.params["interval"] = ""
    /\ sent.arguments.params["aggregation"] = "Average"
    /\ "resource" \in DOMAIN sent.arguments.params

\* C24: in a run of the single-shot agent the model is asked at most twice, the
\* second time only when its first output was not valid JSON; when the retry
\* output is invalid too the run ends with no tool call; at most one tool call is
\* made, and only after an output that parsed as JSON containing "tool_call".
C24_AtMostTwoAsksOneCall ==
    /\ nChat <= 2 /\ Len(outs) <= nChat
    /\ nChat = 2 => (Len(outs) >= 1 /\ ~outs[1].valid)
    /\ (Len(outs) = 2 /\ ~outs[2].valid) =>
          (nCalls = 0 /\ pc \in {"closing", "exited", "crashed"})
    /\ nCalls <= 1
    /\ nCalls = 1 =>
          /\ outs # << >>
          /\ outs[Len(outs)].valid
          /\ "tool_call" \in outs[Len(outs)].value.keys

\* C24 witness: the first output was invalid, the retry parsed as a tool call,
\* and the one tool call has been made.
C24_Witness ==
    /\ pc = "exited" /\ nChat = 2 /\ nCalls = 1
    /\ ~outs[1].valid /\ outs[2].valid
    /\ sent.type = "call"

====
